---- MODULE Spec2Model ----
(***************************************************************************)
(* fake_dpi: a window wrapper (FakeDpiWindow<W>) that simulates a Hi-DPI   *)
(* screen.  The wrapper owns an inner window and a public f64 field dpi;   *)
(* it builds the inner window at dpi times the requested size, divides the *)
(* inner size by dpi in size(), rewrites every retrieved input event with  *)
(* map_input(dpi, e) and forwards everything else.                         *)
(*                                                                         *)
(* f64 values are modelled as binary floating-point numbers with a         *)
(* MantBits-bit significand, rounded to nearest, ties to even, with the    *)
(* IEEE-754 special results of a division (infinity, NaN).  The exponent   *)
(* range is not limited: the geometry the model draws is far from the      *)
(* overflow and underflow thresholds of f64.                               *)
(***************************************************************************)
EXTENDS Integers, Sequences, FiniteSets, TLC

\* Significand width of the modelled floating-point format (f64 has 53).
MantBits == 7

RECURSIVE Pow2(_)
Pow2(n) == IF n <= 0 THEN 1 ELSE 2 * Pow2(n - 1)

RECURSIVE BitLen(_)
BitLen(n) == IF n = 0 THEN 0 ELSE 1 + BitLen(n \div 2)

Abs(x) == IF x < 0 THEN 0 - x ELSE x

Sgn(x) == IF x < 0 THEN 0 - 1 ELSE 1

\* A finite float m * 2^e in canonical form: m odd, or m = 0 and e = 0.
RECURSIVE FNorm(_, _)
FNorm(m, e) ==
    IF m = 0 THEN [cls |-> "fin", m |-> 0, e |-> 0]
    ELSE IF m % 2 = 0 THEN FNorm(m \div 2, e + 1)
    ELSE [cls |-> "fin", m |-> m, e |-> e]

FInf(s) == [cls |-> "inf", m |-> s, e |-> 0]

FNaN == [cls |-> "nan", m |-> 0, e |-> 0]

\* The float nearest to s * mag * 2^e (mag >= 0), ties to even.
FRound(s, mag, e) ==
    LET n == BitLen(mag) IN
    IF n <= MantBits THEN FNorm(s * mag, e)
    ELSE LET sh == n - MantBits
             q  == mag \div Pow2(sh)
             r  == mag % Pow2(sh)
             h  == Pow2(sh - 1)
             q1 == IF r > h \/ (r = h /\ q % 2 = 1) THEN q + 1 ELSE q
         IN  FNorm(s * q1, e + sh)

\* f64 multiplication a * b.
FMul(a, b) ==
    IF a.cls = "nan" \/ b.cls = "nan" THEN FNaN
    ELSE IF a.cls = "inf" \/ b.cls = "inf"
         THEN IF a.m = 0 \/ b.m = 0 THEN FNaN ELSE FInf(Sgn(a.m) * Sgn(b.m))
    ELSE FRound(Sgn(a.m) * Sgn(b.m), Abs(a.m) * Abs(b.m), a.e + b.e)

\* Number of extra quotient bits computed before rounding.
DivShift == 2 * MantBits + 2

\* f64 division a / b.  The quotient is computed to more than MantBits + 2
\* bits with a sticky bit for the remainder, then rounded once.
FDiv(a, b) ==
    IF a.cls = "nan" \/ b.cls = "nan" THEN FNaN
    ELSE IF a.cls = "inf"
         THEN IF b.cls = "inf" THEN FNaN
              ELSE FInf(Sgn(a.m) * Sgn(b.m))
    ELSE IF b.cls = "inf" THEN FNorm(0, 0)
    ELSE IF b.m = 0
         THEN IF a.m = 0 THEN FNaN ELSE FInf(Sgn(a.m))
    ELSE LET n  == Abs(a.m) * Pow2(DivShift)
             d  == Abs(b.m)
             q  == n \div d
             st == IF n % d = 0 THEN 0 ELSE 1
         IN  FRound(Sgn(a.m) * Sgn(b.m), 2 * q + st, a.e - b.e - DivShift - 1)

\* The f64 literal nearest to m * 2^e.
F(m, e) == FRound(Sgn(m), Abs(m), e)

Zero == F(0, 0)

One == F(1, 0)

\* The literal 2.0 of build_from_window_settings.
Two == F(1, 1)

\* A finite power of two: dividing and multiplying by it is exact.
IsPow2(a) == a.cls = "fin" /\ a.m = 1

(***************************************************************************)
(* input::Input, the closed set of event variants, and map_input.          *)
(***************************************************************************)

\* Coordinates and factors the pure-function specification draws from.
CoordPairs == {<<F(25, 4), F(75, 2)>>, <<F(5, 0), F(1, 0)>>,
               <<F(0, 0), F(0 - 3, 0)>>, <<F(15, 5), F(25, 4)>>}

FnFactors == {F(1, 0 - 1), One, Two, F(3, 0), F(7, 0), F(3, 0 - 1),
              Zero, F(0 - 1, 1)}

\* ResizeArgs.draw_size is [u32; 2].
DrawSizes == {<<1600, 1200>>, <<640, 480>>}

Focus(b) == [tag |-> "Focus", val |-> b]

Cursor(b) == [tag |-> "Cursor", val |-> b]

Button(a) == [tag |-> "Button", val |-> a]

Text(s) == [tag |-> "Text", val |-> s]

FileDrag(a) == [tag |-> "FileDrag", val |-> a]

Close(a) == [tag |-> "Close", val |-> a]

Move(motion, pos) == [tag |-> "Move", motion |-> motion, pos |-> pos]

Resize(draw, win) == [tag |-> "Resize", draw_size |-> draw, window_size |-> win]

PointerMotions == {"MouseCursor", "MouseRelative", "MouseScroll"}

DeviceMotions == {"Touch", "ControllerAxis"}

PlainTags == {"Focus", "Cursor", "Button", "Text", "FileDrag", "Close"}

PlainEvents ==
    {Focus(b) : b \in BOOLEAN} \cup {Cursor(b) : b \in BOOLEAN}
      \cup {Button(a) : a \in {"press", "release"}}
      \cup {Text(s) : s \in {"a", ""}}
      \cup {FileDrag(a) : a \in {"hover", "drop"}}
      \cup {Close(a) : a \in {"close"}}

DeviceEvents == {Move(k, p) : k \in DeviceMotions, p \in CoordPairs}

PointerEvents == {Move(k, p) : k \in PointerMotions, p \in CoordPairs}

ResizeEvents == {Resize(d, w) : d \in DrawSizes, w \in CoordPairs}

Inputs == PlainEvents \cup DeviceEvents \cup PointerEvents \cup ResizeEvents

IsPlain(e) == e.tag \in PlainTags \/ (e.tag = "Move" /\ e.motion \in DeviceMotions)

IsPointer(e) == e.tag = "Move" /\ e.motion \in PointerMotions

IsResize(e) == e.tag = "Resize"

DivPair(pos, dpi) == <<FDiv(pos[1], dpi), FDiv(pos[2], dpi)>>

MulPair(pos, dpi) == <<FMul(pos[1], dpi), FMul(pos[2], dpi)>>

\* map_input with the pointer coordinates multiplied instead of divided.
map_input_mul(dpi, e) ==
    CASE e.tag \in PlainTags -> e
      [] e.tag = "Move" /\ e.motion \in DeviceMotions -> e
      [] e.tag = "Move" /\ e.motion \in PointerMotions ->
             Move(e.motion, MulPair(e.pos, dpi))
      [] e.tag = "Resize" -> Resize(e.draw_size, DivPair(e.window_size, dpi))

\* map_input with the resize arm passed through unscaled.
map_input_rawresize(dpi, e) ==
    CASE e.tag \in PlainTags -> e
      [] e.tag = "Move" /\ e.motion \in DeviceMotions -> e
      [] e.tag = "Move" /\ e.motion \in PointerMotions ->
             Move(e.motion, DivPair(e.pos, dpi))
      [] e.tag = "Resize" -> e

\* map_input with touch motion scaled like the mouse motions.
map_input_touch(dpi, e) ==
    CASE e.tag \in PlainTags -> e
      [] e.tag = "Move" /\ e.motion = "ControllerAxis" -> e
      [] e.tag = "Move" /\ e.motion \in PointerMotions \cup {"Touch"} ->
             Move(e.motion, DivPair(e.pos, dpi))
      [] e.tag = "Resize" -> Resize(e.draw_size, DivPair(e.window_size, dpi))

\* map_input with the first coordinate used twice in the MouseCursor arm.
map_input_dup(dpi, e) ==
    CASE e.tag \in PlainTags -> e
      [] e.tag = "Move" /\ e.motion \in DeviceMotions -> e
      [] e.tag = "Move" /\ e.motion = "MouseCursor" ->
             Move("MouseCursor", <<FDiv(e.pos[1], dpi), FDiv(e.pos[1], dpi)>>)
      [] e.tag = "Move" /\ e.motion \in {"MouseRelative", "MouseScroll"} ->
             Move(e.motion, DivPair(e.pos, dpi))
      [] e.tag = "Resize" -> Resize(e.draw_size, DivPair(e.window_size, dpi))

\* fn map_input(dpi: f64, e: Input) -> Input
map_input(dpi, e) ==
    CASE e.tag \in PlainTags -> e
      [] e.tag = "Move" /\ e.motion \in DeviceMotions -> e
      [] e.tag = "Move" /\ e.motion = "MouseCursor" ->
             Move("MouseCursor", <<FDiv(e.pos[1], dpi), FDiv(e.pos[2], dpi)>>)
      [] e.tag = "Move" /\ e.motion = "MouseRelative" ->
             Move("MouseRelative", <<FDiv(e.pos[1], dpi), FDiv(e.pos[2], dpi)>>)
      [] e.tag = "Move" /\ e.motion = "MouseScroll" ->
             Move("MouseScroll", <<FDiv(e.pos[1], dpi), FDiv(e.pos[2], dpi)>>)
      [] e.tag = "Resize" ->
             Resize(e.draw_size,
                    <<FDiv(e.window_size[1], dpi), FDiv(e.window_size[2], dpi)>>)

(***************************************************************************)
(* The window state machine.                                               *)
(***************************************************************************)
VARIABLES
    settings,   \* the caller's WindowSettings, borrowed by the factory
    built,      \* "none" before the factory ran, then "ok" or "err"
    inner,      \* FakeDpiWindow.inner: the state of the wrapped window
    dpi,        \* FakeDpiWindow.dpi
    call,       \* the calls the last operation made on the inner window
    ret,        \* the last operation, its argument and what it returned
    produced,   \* every (event, timestamp) the inner window ever queued
    hist,       \* every retrieval that yielded an event: in, dpi, out
    fn          \* the pure-function specification: inputs and results

vars == <<settings, built, inner, dpi, call, ret, produced, hist, fn>>

\* Bound on the events the inner window produces in one run.
MaxEvents == 2

None == <<>>

Some(x) == <<x>>

Size(w, h) == [width |-> w, height |-> h]

Call(op, arg, res) == [op |-> op, arg |-> arg, res |-> res]

Ret(op, arg, val) == [op |-> op, arg |-> arg, val |-> val]

\* Logical sizes the application requests, sizes it passes to set_size,
\* sizes the window system resizes the inner window to, dpi values the
\* application writes (positive values).
LogicalSizes == {Size(F(25, 5), F(75, 3)), Size(F(5, 7), F(15, 5))}

SetSizes == {Size(F(25, 5), F(75, 3)), Size(F(5, 0), F(3, 0))}

ResizeTargets == {<<1024, 768>>}

Factors == {One, Two, F(7, 0)}

Titles == {"renamed"}

Positions == {[x |-> 10, y |-> 0 - 5]}

Durations == {10, 250}

BuildErrors == {"no display", "bad config"}

NoWindow ==
    [alive |-> FALSE, size |-> Size(Zero, Zero), draw_size |-> Size(Zero, Zero),
     should_close |-> FALSE, front |-> 0, title |-> "", exit_on_esc |-> FALSE,
     automatic_close |-> FALSE, capture_cursor |-> FALSE, visible |-> FALSE,
     position |-> None, queue |-> <<>>]

FnArgs(pc, f, e) == [pc |-> pc, dpi |-> f, e |-> e, out |-> e, back |-> e, twice |-> e]

FnIdle == FnArgs("idle", One, Focus(TRUE))

Init ==
    /\ settings \in {[size |-> s, title |-> "app", exit_on_esc |-> FALSE] :
                        s \in LogicalSizes}
    /\ built = "none"
    /\ inner = NoWindow
    /\ dpi = FNaN
    /\ call = <<>>
    /\ ret = Ret("new", "unit", "unit")
    /\ produced = <<>>
    /\ hist = <<>>
    /\ fn = FnIdle

(***************************************************************************)
(* The inner window W: the operations of window::Window and                *)
(* window::AdvancedWindow the wrapper calls.  Each yields the result and   *)
(* the window's next state.                                                *)
(***************************************************************************)
Out(res, w) == [res |-> res, w |-> w]

\* settings.build(): the binding builds a window of the requested size,
\* or fails.
W_build(st, ok, err) ==
    IF ok
    THEN Out("Ok", [NoWindow EXCEPT !.alive = TRUE, !.size = st.size,
                                    !.draw_size = st.size, !.title = st.title,
                                    !.exit_on_esc = st.exit_on_esc,
                                    !.visible = TRUE])
    ELSE Out(err, NoWindow)

W_set_should_close(w, val) == Out("unit", [w EXCEPT !.should_close = val])

W_should_close(w) == Out(w.should_close, w)

W_size(w) == Out(w.size, w)

W_swap_buffers(w) == Out("unit", [w EXCEPT !.front = 1 - w.front])

\* Blocks until an event is queued: callable only then.
W_wait_event(w) == Out(Head(w.queue), [w EXCEPT !.queue = Tail(w.queue)])

W_poll_event(w) ==
    IF w.queue = <<>> THEN Out(None, w)
    ELSE Out(Some(Head(w.queue)), [w EXCEPT !.queue = Tail(w.queue)])

\* With nothing queued the wait times out.
W_wait_event_timeout(w, val) == W_poll_event(w)

W_draw_size(w) == Out(w.draw_size, w)

W_get_title(w) == Out(w.title, w)

W_set_title(w, val) == Out("unit", [w EXCEPT !.title = val])

W_get_exit_on_esc(w) == Out(w.exit_on_esc, w)

W_set_exit_on_esc(w, val) == Out("unit", [w EXCEPT !.exit_on_esc = val])

W_get_automatic_close(w) == Out(w.automatic_close, w)

W_set_automatic_close(w, val) == Out("unit", [w EXCEPT !.automatic_close = val])

W_set_capture_cursor(w, val) == Out("unit", [w EXCEPT !.capture_cursor = val])

W_show(w) == Out("unit", [w EXCEPT !.visible = TRUE])

W_hide(w) == Out("unit", [w EXCEPT !.visible = FALSE])

W_get_position(w) == Out(w.position, w)

W_set_position(w, val) == Out("unit", [w EXCEPT !.position = Some(val)])

\* The window system honours the request or keeps the old size.
W_set_size(w, val, honoured) ==
    Out("unit", IF honoured THEN [w EXCEPT !.size = val, !.draw_size = val] ELSE w)

(***************************************************************************)
(* FakeDpiWindow<W>.                                                       *)
(***************************************************************************)

\* One forwarded call: the inner window moves to r.w, the call is logged and
\* val is returned.
Forward(op, arg, r, val) ==
    /\ inner' = r.w
    /\ call' = <<Call(op, arg, r.res)>>
    /\ ret' = Ret(op, arg, val)

\* The factory building the inner window from the settings as given.
build_unscaled ==
    /\ built = "none"
    /\ \E ok \in BOOLEAN, err \in BuildErrors :
         LET r == W_build(settings, ok, err)
         IN  /\ call' = <<Call("build", settings, r.res)>>
             /\ IF r.res = "Ok"
                THEN /\ built' = "ok"
                     /\ inner' = r.w
                     /\ dpi' = Two
                     /\ ret' = Ret("build", settings, "Ok")
                ELSE /\ built' = "err"
                     /\ ret' = Ret("build", settings, r.res)
                     /\ UNCHANGED <<inner, dpi>>
    /\ UNCHANGED <<settings, produced, hist, fn>>

\* The factory reporting an error of its own when the build fails.
build_own_error ==
    /\ built = "none"
    /\ \E ok \in BOOLEAN, err \in BuildErrors :
         LET d == Two
             size == settings.size
             cloned == [settings EXCEPT !.size = Size(FMul(size.width, d),
                                                      FMul(size.height, d))]
             r == W_build(cloned, ok, err)
         IN  /\ call' = <<Call("build", cloned, r.res)>>
             /\ IF r.res = "Ok"
                THEN /\ built' = "ok"
                     /\ inner' = r.w
                     /\ dpi' = d
                     /\ ret' = Ret("build", settings, "Ok")
                ELSE /\ built' = "err"
                     /\ ret' = Ret("build", settings, "window creation failed")
                     /\ UNCHANGED <<inner, dpi>>
    /\ UNCHANGED <<settings, produced, hist, fn>>

\* impl BuildFromWindowSettings for FakeDpiWindow<W>
build_from_window_settings ==
    /\ built = "none"
    /\ \E ok \in BOOLEAN, err \in BuildErrors :
         LET d == Two
             size == settings.size
             cloned == [settings EXCEPT !.size = Size(FMul(size.width, d),
                                                      FMul(size.height, d))]
             r == W_build(cloned, ok, err)
         IN  /\ call' = <<Call("build", cloned, r.res)>>
             /\ IF r.res = "Ok"
                THEN /\ built' = "ok"
                     /\ inner' = r.w
                     /\ dpi' = d
                     /\ ret' = Ret("build", settings, "Ok")
                ELSE /\ built' = "err"
                     /\ ret' = Ret("build", settings, r.res)
                     /\ UNCHANGED <<inner, dpi>>
    /\ UNCHANGED <<settings, produced, hist, fn>>

\* The application writes the public field dpi.
write_dpi ==
    /\ built = "ok"
    /\ \E f \in Factors :
         /\ dpi' = f
         /\ ret' = Ret("write_dpi", f, "unit")
    /\ call' = <<>>
    /\ UNCHANGED <<settings, built, inner, produced, hist, fn>>

set_should_close ==
    /\ built = "ok"
    /\ \E val \in BOOLEAN :
         LET r == W_set_should_close(inner, val)
         IN  Forward("set_should_close", val, r, r.res)
    /\ UNCHANGED <<settings, built, dpi, produced, hist, fn>>

should_close ==
    /\ built = "ok"
    /\ LET r == W_should_close(inner)
       IN  Forward("should_close", "unit", r, r.res)
    /\ UNCHANGED <<settings, built, dpi, produced, hist, fn>>

\* size() dividing by the default factor instead of the live field.
size_default ==
    /\ built = "ok"
    /\ LET r == W_size(inner)
           sz == r.res
       IN  Forward("size", "unit", r,
                   Size(FDiv(sz.width, Two), FDiv(sz.height, Two)))
    /\ UNCHANGED <<settings, built, dpi, produced, hist, fn>>

size ==
    /\ built = "ok"
    /\ LET r == W_size(inner)
           sz == r.res
       IN  Forward("size", "unit", r,
                   Size(FDiv(sz.width, dpi), FDiv(sz.height, dpi)))
    /\ UNCHANGED <<settings, built, dpi, produced, hist, fn>>

swap_buffers ==
    /\ built = "ok"
    /\ LET r == W_swap_buffers(inner)
       IN  Forward("swap_buffers", "unit", r, r.res)
    /\ UNCHANGED <<settings, built, dpi, produced, hist, fn>>

\* (e, t) -> (map_input(self.dpi, e), t)
Mapped(d, et) == [e |-> map_input(d, et.e), t |-> et.t]

Retrieved(d, et) == [in |-> et, dpi |-> d, out |-> Mapped(d, et)]

wait_event ==
    /\ built = "ok"
    /\ inner.queue # <<>>
    /\ LET r == W_wait_event(inner)
       IN  /\ Forward("wait_event", "unit", r, Mapped(dpi, r.res))
           /\ hist' = Append(hist, Retrieved(dpi, r.res))
    /\ UNCHANGED <<settings, built, dpi, produced, fn>>

wait_event_timeout ==
    /\ built = "ok"
    /\ \E val \in Durations :
         LET r == W_wait_event_timeout(inner, val)
         IN  IF r.res = None
             THEN /\ Forward("wait_event_timeout", val, r, None)
                  /\ hist' = hist
             ELSE /\ Forward("wait_event_timeout", val, r,
                             Some(Mapped(dpi, r.res[1])))
                  /\ hist' = Append(hist, Retrieved(dpi, r.res[1]))
    /\ UNCHANGED <<settings, built, dpi, produced, fn>>

\* poll_event returning the inner window's event as it came.
poll_event_unmapped ==
    /\ built = "ok"
    /\ LET r == W_poll_event(inner)
       IN  IF r.res = None
           THEN /\ Forward("poll_event", "unit", r, None)
                /\ hist' = hist
           ELSE /\ Forward("poll_event", "unit", r, r.res)
                /\ hist' = Append(hist, [in |-> r.res[1], dpi |-> dpi,
                                         out |-> r.res[1]])
    /\ UNCHANGED <<settings, built, dpi, produced, fn>>

poll_event ==
    /\ built = "ok"
    /\ LET r == W_poll_event(inner)
       IN  IF r.res = None
           THEN /\ Forward("poll_event", "unit", r, None)
                /\ hist' = hist
           ELSE /\ Forward("poll_event", "unit", r, Some(Mapped(dpi, r.res[1])))
                /\ hist' = Append(hist, Retrieved(dpi, r.res[1]))
    /\ UNCHANGED <<settings, built, dpi, produced, fn>>

\* draw_size() divided by dpi like size().
draw_size_scaled ==
    /\ built = "ok"
    /\ LET r == W_draw_size(inner)
       IN  Forward("draw_size", "unit", r,
                   Size(FDiv(r.res.width, dpi), FDiv(r.res.height, dpi)))
    /\ UNCHANGED <<settings, built, dpi, produced, hist, fn>>

draw_size ==
    /\ built = "ok"
    /\ LET r == W_draw_size(inner)
       IN  Forward("draw_size", "unit", r, r.res)
    /\ UNCHANGED <<settings, built, dpi, produced, hist, fn>>

get_title ==
    /\ built = "ok"
    /\ LET r == W_get_title(inner)
       IN  Forward("get_title", "unit", r, r.res)
    /\ UNCHANGED <<settings, built, dpi, produced, hist, fn>>

set_title ==
    /\ built = "ok"
    /\ \E val \in Titles :
         LET r == W_set_title(inner, val)
         IN  Forward("set_title", val, r, r.res)
    /\ UNCHANGED <<settings, built, dpi, produced, hist, fn>>

get_exit_on_esc ==
    /\ built = "ok"
    /\ LET r == W_get_exit_on_esc(inner)
       IN  Forward("get_exit_on_esc", "unit", r, r.res)
    /\ UNCHANGED <<settings, built, dpi, produced, hist, fn>>

set_exit_on_esc ==
    /\ built = "ok"
    /\ \E val \in BOOLEAN :
         LET r == W_set_exit_on_esc(inner, val)
         IN  Forward("set_exit_on_esc", val, r, r.res)
    /\ UNCHANGED <<settings, built, dpi, produced, hist, fn>>

get_automatic_close ==
    /\ built = "ok"
    /\ LET r == W_get_automatic_close(inner)
       IN  Forward("get_automatic_close", "unit", r, r.res)
    /\ UNCHANGED <<settings, built, dpi, produced, hist, fn>>

set_automatic_close ==
    /\ built = "ok"
    /\ \E val \in BOOLEAN :
         LET r == W_set_automatic_close(inner, val)
         IN  Forward("set_automatic_close", val, r, r.res)
    /\ UNCHANGED <<settings, built, dpi, produced, hist, fn>>

set_capture_cursor ==
    /\ built = "ok"
    /\ \E val \in BOOLEAN :
         LET r == W_set_capture_cursor(inner, val)
         IN  Forward("set_capture_cursor", val, r, r.res)
    /\ UNCHANGED <<settings, built, dpi, produced, hist, fn>>

show ==
    /\ built = "ok"
    /\ LET r == W_show(inner)
       IN  Forward("show", "unit", r, r.res)
    /\ UNCHANGED <<settings, built, dpi, produced, hist, fn>>

hide ==
    /\ built = "ok"
    /\ LET r == W_hide(inner)
       IN  Forward("hide", "unit", r, r.res)
    /\ UNCHANGED <<settings, built, dpi, produced, hist, fn>>

get_position ==
    /\ built = "ok"
    /\ LET r == W_get_position(inner)
       IN  Forward("get_position", "unit", r, r.res)
    /\ UNCHANGED <<settings, built, dpi, produced, hist, fn>>

set_position ==
    /\ built = "ok"
    /\ \E val \in Positions :
         LET r == W_set_position(inner, val)
         IN  Forward("set_position", val, r, r.res)
    /\ UNCHANGED <<settings, built, dpi, produced, hist, fn>>

\* set_size() converting the logical argument to physical units.
set_size_scaled ==
    /\ built = "ok"
    /\ \E val \in SetSizes, honoured \in BOOLEAN :
         LET phys == Size(FMul(val.width, dpi), FMul(val.height, dpi))
             r == W_set_size(inner, phys, honoured)
         IN  /\ inner' = r.w
             /\ call' = <<Call("set_size", phys, r.res)>>
             /\ ret' = Ret("set_size", val, r.res)
    /\ UNCHANGED <<settings, built, dpi, produced, hist, fn>>

set_size ==
    /\ built = "ok"
    /\ \E val \in SetSizes, honoured \in BOOLEAN :
         LET r == W_set_size(inner, val, honoured)
         IN  Forward("set_size", val, r, r.res)
    /\ UNCHANGED <<settings, built, dpi, produced, hist, fn>>

(***************************************************************************)
(* The window system, acting on the inner window between two calls.        *)
(***************************************************************************)

\* Events (with their timestamps) the window system queues; a resize is
\* queued by InnerResize.
QueuedInputs ==
    {[e |-> Focus(FALSE), t |-> None],
     [e |-> Move("Touch", <<F(5, 0), F(1, 0)>>), t |-> Some(8)],
     [e |-> Move("MouseCursor", <<F(25, 4), F(75, 2)>>), t |-> Some(7)],
     [e |-> Move("MouseScroll", <<F(0, 0), F(1, 0)>>), t |-> None]}

InnerEvent ==
    /\ built = "ok"
    /\ Len(produced) < MaxEvents
    /\ \E et \in QueuedInputs :
         /\ inner' = [inner EXCEPT !.queue = Append(inner.queue, et)]
         /\ produced' = Append(produced, et)
    /\ call' = <<>>
    /\ ret' = Ret("window_system", "event", "unit")
    /\ UNCHANGED <<settings, built, dpi, hist, fn>>

\* The user resizes the physical window: its size changes and a Resize event
\* carrying the new physical geometry is queued.
InnerResize ==
    /\ built = "ok"
    /\ Len(produced) < MaxEvents
    /\ \E wh \in ResizeTargets :
         LET sz == Size(F(wh[1], 0), F(wh[2], 0))
             et == [e |-> Resize(wh, <<sz.width, sz.height>>),
                    t |-> Some(Len(produced) + 1)]
         IN  /\ inner' = [inner EXCEPT !.size = sz, !.draw_size = sz,
                                       !.queue = Append(inner.queue, et)]
             /\ produced' = Append(produced, et)
    /\ call' = <<>>
    /\ ret' = Ret("window_system", "resize", "unit")
    /\ UNCHANGED <<settings, built, dpi, hist, fn>>

(***************************************************************************)
(* map_input as a pure function: the inputs are drawn by InitFn, then      *)
(* map_input is applied, and applied again with the same and with the      *)
(* inverse factor.                                                         *)
(***************************************************************************)
apply_map ==
    /\ fn.pc = "start"
    /\ fn' = [fn EXCEPT !.pc = "mapped", !.out = map_input(fn.dpi, fn.e)]
    /\ UNCHANGED <<settings, built, inner, dpi, call, ret, produced, hist>>

apply_inverse ==
    /\ fn.pc = "mapped"
    /\ fn' = [fn EXCEPT !.pc = "inverted",
                        !.back = map_input(FDiv(One, fn.dpi), fn.out)]
    /\ UNCHANGED <<settings, built, inner, dpi, call, ret, produced, hist>>

apply_again ==
    /\ fn.pc = "mapped"
    /\ fn' = [fn EXCEPT !.pc = "twice", !.twice = map_input(fn.dpi, fn.out)]
    /\ UNCHANGED <<settings, built, inner, dpi, call, ret, produced, hist>>

InitFn ==
    /\ settings \in {[size |-> s, title |-> "app", exit_on_esc |-> FALSE] :
                        s \in LogicalSizes}
    /\ built = "none"
    /\ inner = NoWindow
    /\ dpi = FNaN
    /\ call = <<>>
    /\ ret = Ret("new", "unit", "unit")
    /\ produced = <<>>
    /\ hist = <<>>
    /\ fn \in {FnArgs("start", f, e) : f \in FnFactors, e \in Inputs}

(***************************************************************************)
(* Specifications.                                                         *)
(***************************************************************************)

\* Geometry: construction, the dpi field, size, set_size, position, resizes
\* of the inner window and the retrieval of their Resize events.
Next ==
    \/ build_from_window_settings
    \/ write_dpi
    \/ size
    \/ set_size
    \/ get_position
    \/ set_position
    \/ draw_size
    \/ InnerResize
    \/ wait_event
    \/ wait_event_timeout
    \/ poll_event

Spec == Init /\ [][Next]_vars

\* Event retrieval.
NextEvents ==
    \/ build_from_window_settings
    \/ write_dpi
    \/ wait_event
    \/ wait_event_timeout
    \/ poll_event
    \/ InnerEvent
    \/ InnerResize

SpecEvents == Init /\ [][NextEvents]_vars

\* The forwarded operations.
NextPass ==
    \/ build_from_window_settings
    \/ write_dpi
    \/ set_should_close
    \/ should_close
    \/ swap_buffers
    \/ draw_size
    \/ get_title
    \/ set_title
    \/ get_exit_on_esc
    \/ set_exit_on_esc
    \/ get_automatic_close
    \/ set_automatic_close
    \/ set_capture_cursor
    \/ show
    \/ hide
    \/ get_position
    \/ set_position
    \/ size
    \/ set_size

SpecPass == Init /\ [][NextPass]_vars

\* map_input as a pure function, and size() under the same factors.
NextFn ==
    \/ apply_map
    \/ apply_inverse
    \/ apply_again
    \/ build_from_window_settings
    \/ write_dpi
    \/ size

SpecFn == InitFn /\ [][NextFn]_vars

(***************************************************************************)
(* Properties.                                                             *)
(***************************************************************************)
DivSize(sz, f) == Size(FDiv(sz.width, f), FDiv(sz.height, f))

MulSize(sz, f) == Size(FMul(sz.width, f), FMul(sz.height, f))

\* a is b up to the rounding of a few f64 operations: |a - b| <= 2^(2-p) |b|
\* for a p-bit significand.
FClose(a, b) ==
    /\ a.cls = "fin" /\ b.cls = "fin"
    /\ \/ a = b
       \/ /\ a.m # 0 /\ b.m # 0
          /\ Abs(a.e - b.e) <= MantBits + 2
          /\ LET lo == IF a.e < b.e THEN a.e ELSE b.e
                 x == a.m * Pow2(a.e - lo)
                 y == b.m * Pow2(b.e - lo)
             IN  Abs(x - y) * Pow2(MantBits - 2) <= Abs(y)

ClosePair(p, q) == FClose(p[1], q[1]) /\ FClose(p[2], q[2])

\* Same variant, same unscaled payload, coordinates equal up to rounding.
CloseInput(a, b) ==
    /\ a.tag = b.tag
    /\ IF a.tag = "Move" THEN a.motion = b.motion /\ ClosePair(a.pos, b.pos)
       ELSE IF a.tag = "Resize"
            THEN a.draw_size = b.draw_size
                   /\ ClosePair(a.window_size, b.window_size)
       ELSE a = b

IsFinitePositive(f) == f.cls = "fin" /\ f.m > 0

HasNonZero(p) == p[1].m # 0 \/ p[2].m # 0

\* The states of the pure-function specification in which fn.out is set.
Applied == {"mapped", "inverted", "twice"}

\* 800 x 600, 1600 x 1200, 400 x 300 and 200 x 150 as f64 values.
Size800x600 == Size(F(25, 5), F(75, 3))

Size1600x1200 == Size(F(25, 6), F(75, 4))

Size400x300 == Size(F(25, 4), F(75, 2))

Pos400x300 == <<F(25, 4), F(75, 2)>>

Pos200x150 == <<F(25, 3), F(75, 1)>>

\* C1: the factory leaves the caller's settings alone and builds the inner
\* window at twice the declared size (w, h), with dpi = 2.0; while the inner
\* window keeps that size and dpi keeps its default, size() returns (w, h).
\* A request of 800 x 600 builds the inner window at 1600 x 1200.
C1_BuildRoundTrip ==
    /\ (ret.op = "build" /\ built = "ok") =>
          /\ settings = ret.arg
          /\ dpi = Two
          /\ call[1].arg = [ret.arg EXCEPT !.size = MulSize(ret.arg.size, Two)]
          /\ inner.size = MulSize(settings.size, Two)
          /\ (settings.size = Size800x600 => inner.size = Size1600x1200)
    /\ (ret.op = "size" /\ dpi = Two /\ inner.size = MulSize(settings.size, Two)) =>
          ret.val = settings.size

C1_Witness ==
    /\ ret.op = "size" /\ dpi = Two
    /\ settings.size = Size800x600
    /\ inner.size = Size1600x1200
    /\ ret.val = Size800x600

\* C2: for f > 0, map_input maps a MouseCursor, MouseRelative or MouseScroll
\* event with coordinate (x, y) to the same variant with coordinate
\* (x / f, y / f); the cursor at (400, 300) becomes (200, 150) for f = 2.0.
C2_PointerScaled ==
    (fn.pc \in Applied /\ IsPointer(fn.e) /\ IsFinitePositive(fn.dpi)) =>
        /\ fn.out = Move(fn.e.motion, DivPair(fn.e.pos, fn.dpi))
        /\ (fn.dpi = Two /\ fn.e.pos = Pos400x300 => fn.out.pos = Pos200x150)

C2_Witness ==
    /\ fn.pc = "mapped" /\ fn.dpi = Two
    /\ fn.e = Move("MouseCursor", Pos400x300)
    /\ fn.out = Move("MouseCursor", Pos200x150)

\* C3: for f > 0, map_input maps a Resize event to a Resize event with the
\* same draw_size and with window_size (w / f, h / f).
C3_ResizeScaled ==
    (fn.pc \in Applied /\ IsResize(fn.e) /\ IsFinitePositive(fn.dpi)) =>
        /\ fn.out.tag = "Resize"
        /\ fn.out.draw_size = fn.e.draw_size
        /\ fn.out.window_size = DivPair(fn.e.window_size, fn.dpi)
        /\ (fn.dpi = Two /\ fn.e.window_size = Pos400x300
              => fn.out.window_size = Pos200x150)

C3_Witness ==
    /\ fn.pc = "mapped" /\ fn.dpi = Two
    /\ fn.e = Resize(<<1600, 1200>>, Pos400x300)
    /\ fn.out = Resize(<<1600, 1200>>, Pos200x150)

\* C4: for every factor, positive or not, map_input returns a Focus, Cursor,
\* Button, Text, FileDrag, Close, Touch or ControllerAxis event unchanged.
C4_PlainUnchanged ==
    (fn.pc \in Applied /\ IsPlain(fn.e)) => fn.out = fn.e

C4_Witness ==
    /\ fn.pc = "mapped" /\ fn.dpi = Zero
    /\ fn.e = Move("Touch", <<F(5, 0), F(1, 0)>>)
    /\ fn.out = fn.e

\* C5 as stated: size() times the current dpi equals the inner window's size.
C5_ExactProduct ==
    ret.op = "size" => MulSize(ret.val, dpi) = inner.size

\* C5, amended: size() is the inner window's size divided by the dpi value of
\* the moment; multiplied by dpi again it is the inner size up to rounding,
\* and exactly so when dpi is a power of two.  A write of dpi changes nothing
\* but dpi, and size() changes neither dpi nor the inner window's size.
C5_LiveRatio ==
    /\ [](ret.op = "size" =>
            /\ ret.val = DivSize(inner.size, dpi)
            /\ call = <<Call("size", "unit", inner.size)>>
            /\ FClose(FMul(ret.val.width, dpi), inner.size.width)
            /\ FClose(FMul(ret.val.height, dpi), inner.size.height)
            /\ (IsPow2(dpi) => MulSize(ret.val, dpi) = inner.size))
    /\ [][ret'.op = "write_dpi" => (inner' = inner /\ built' = built)]_vars
    /\ [][ret'.op = "size" => (inner' = inner /\ dpi' = dpi)]_vars

C5_Witness ==
    /\ ret.op = "size" /\ dpi = F(7, 0)
    /\ inner.size = MulSize(settings.size, Two)
    /\ ret.val = DivSize(inner.size, F(7, 0))
    /\ MulSize(ret.val, dpi) # inner.size

\* C6: the factory makes one build call; when it fails the factory returns
\* that error and no window or dpi exists; when it succeeds the factory
\* returns the wrapper owning the built window, with dpi = 2.0.
C6_BuildResult ==
    ret.op = "build" =>
        /\ Len(call) = 1 /\ call[1].op = "build"
        /\ ret.val = call[1].res
        /\ IF call[1].res = "Ok"
           THEN built = "ok" /\ inner.alive /\ dpi = Two
                  /\ inner.size = call[1].arg.size
           ELSE built = "err" /\ inner = NoWindow /\ dpi = FNaN
                  /\ call[1].res \in BuildErrors

C6_Witness ==
    ret.op = "build" /\ built = "err" /\ ret.val = "no display" /\ ~inner.alive

\* C7: set_size(s) asks the inner window for exactly s; when the inner window
\* took that size, the next size() returns s / dpi, which is not s unless
\* dpi = 1.0.  get_position and set_position forward unscaled as well.
C7_SetSizeUnscaled ==
    /\ [](ret.op = "set_size" => call = <<Call("set_size", ret.arg, "unit")>>)
    /\ [][(ret.op = "set_size" /\ inner.size = ret.arg /\ ret'.op = "size") =>
            /\ ret'.val = DivSize(ret.arg, dpi)
            /\ (dpi # One => ret'.val # ret.arg)]_vars
    /\ [](ret.op = "set_position" =>
            /\ call = <<Call("set_position", ret.arg, "unit")>>
            /\ inner.position = Some(ret.arg))
    /\ [](ret.op = "get_position" =>
            /\ call = <<Call("get_position", "unit", inner.position)>>
            /\ ret.val = inner.position)

C7_Witness ==
    /\ ret.op = "size" /\ dpi = Two
    /\ inner.size = Size800x600
    /\ ret.val = Size400x300

\* C8: a retrieval makes one call of the same operation on the inner window
\* with the same duration, returns None exactly when that call did, and
\* otherwise returns the inner window's timestamp with the event mapped by
\* the dpi of the moment, which it leaves as it was.  The events delivered
\* so far are the first events the inner window produced, in order, and the
\* rest is still queued there.
RetrievalOps == {"wait_event", "wait_event_timeout", "poll_event"}

C8_Retrieval ==
    /\ (ret.op \in RetrievalOps) =>
          /\ Len(call) = 1 /\ call[1].op = ret.op /\ call[1].arg = ret.arg
          /\ IF ret.op = "wait_event"
             THEN ret.val = [e |-> map_input(dpi, call[1].res.e),
                             t |-> call[1].res.t]
             ELSE IF call[1].res = None THEN ret.val = None
             ELSE ret.val = Some([e |-> map_input(dpi, call[1].res[1].e),
                                  t |-> call[1].res[1].t])
    /\ (ret.op \in RetrievalOps /\ (ret.op = "wait_event" \/ call[1].res # None)) =>
          /\ hist # <<>>
          /\ hist[Len(hist)].dpi = dpi
          /\ hist[Len(hist)].out = IF ret.op = "wait_event" THEN ret.val
                                   ELSE ret.val[1]
    /\ Len(hist) + Len(inner.queue) = Len(produced)
    /\ \A i \in 1..Len(hist) :
          /\ hist[i].in = produced[i]
          /\ hist[i].out = [e |-> map_input(hist[i].dpi, produced[i].e),
                            t |-> produced[i].t]
    /\ \A i \in 1..Len(inner.queue) : inner.queue[i] = produced[Len(hist) + i]

C8_Witness ==
    /\ Len(hist) = 2 /\ ret.op = "poll_event"
    /\ hist[1].dpi = Two /\ hist[2].dpi = F(7, 0)
    /\ hist[1].in.e.tag = "Resize"
    /\ hist[2].in.e = Move("MouseCursor", Pos400x300)
    /\ hist[2].out.e # hist[2].in.e
    /\ hist[2].out.t = Some(7)

\* C9 as stated: for f > 0 and a coordinate-bearing event e,
\* map_input(1 / f, map_input(f, e)) = e.
C9_ExactInverse ==
    (fn.pc = "inverted" /\ IsFinitePositive(fn.dpi)
       /\ (IsPointer(fn.e) \/ IsResize(fn.e))) => fn.back = fn.e

\* C9, amended: for f > 0 and a coordinate-bearing event e,
\* map_input(1 / f, map_input(f, e)) is e up to rounding, and exactly e when
\* f is a power of two; mapping twice differs from mapping once unless
\* f = 1.0 or all coordinates are zero; map_input(1.0, e) = e for every
\* event, and with dpi = 1.0 size() is the inner window's size.
C9_InverseUpToRounding ==
    /\ (fn.pc = "inverted" /\ IsFinitePositive(fn.dpi)
          /\ (IsPointer(fn.e) \/ IsResize(fn.e))) =>
          /\ CloseInput(fn.back, fn.e)
          /\ (IsPow2(fn.dpi) => fn.back = fn.e)
    /\ (fn.pc = "twice" /\ IsFinitePositive(fn.dpi) /\ fn.dpi # One) =>
          /\ (IsPointer(fn.e) /\ HasNonZero(fn.e.pos) => fn.twice # fn.out)
          /\ (IsResize(fn.e) /\ HasNonZero(fn.e.window_size) => fn.twice # fn.out)
    /\ (fn.pc \in Applied /\ fn.dpi = One) => fn.out = fn.e
    /\ (ret.op = "size" /\ dpi = One) => ret.val = inner.size

C9_Witness ==
    /\ fn.pc = "inverted" /\ fn.dpi = F(3, 0)
    /\ IsPointer(fn.e)
    /\ fn.back # fn.e
    /\ CloseInput(fn.back, fn.e)

\* C10: each forwarded operation makes exactly the corresponding call on the
\* inner window with its own argument and returns that call's result; a
\* getter returns the inner window's value, draw_size() the undivided draw
\* size, and a setter leaves the inner window holding the argument.  Only a
\* write of the field (after the factory set it) changes dpi.
PassOps ==
    {"set_should_close", "should_close", "swap_buffers", "draw_size",
     "get_title", "set_title", "get_exit_on_esc", "set_exit_on_esc",
     "get_automatic_close", "set_automatic_close", "set_capture_cursor",
     "show", "hide", "get_position", "set_position"}

C10_PassThrough ==
    /\ [](ret.op \in PassOps =>
            /\ call = <<Call(ret.op, ret.arg, ret.val)>>
            /\ (ret.op = "should_close" => ret.val = inner.should_close)
            /\ (ret.op = "draw_size" => ret.val = inner.draw_size)
            /\ (ret.op = "get_title" => ret.val = inner.title)
            /\ (ret.op = "get_exit_on_esc" => ret.val = inner.exit_on_esc)
            /\ (ret.op = "get_automatic_close" => ret.val = inner.automatic_close)
            /\ (ret.op = "get_position" => ret.val = inner.position)
            /\ (ret.op = "set_should_close" => inner.should_close = ret.arg)
            /\ (ret.op = "set_title" => inner.title = ret.arg)
            /\ (ret.op = "set_exit_on_esc" => inner.exit_on_esc = ret.arg)
            /\ (ret.op = "set_automatic_close" => inner.automatic_close = ret.arg)
            /\ (ret.op = "set_capture_cursor" => inner.capture_cursor = ret.arg)
            /\ (ret.op = "set_position" => inner.position = Some(ret.arg))
            /\ (ret.op = "show" => inner.visible)
            /\ (ret.op = "hide" => ~inner.visible))
    /\ [][dpi' # dpi => ret'.op \in {"write_dpi", "build"}]_vars

C10_Witness ==
    /\ ret.op = "draw_size" /\ dpi = F(7, 0)
    /\ ret.val = inner.draw_size
    /\ ret.val = MulSize(settings.size, Two)

====
